---- MODULE Spec2Model ----
(***************************************************************************)
(* The Room Durable Object of worker/room.js: one room's drawing log, its  *)
(* accepted WebSockets, its storage record and its message handlers.       *)
(*                                                                         *)
(* A handler that awaits a storage operation is split at the await: the    *)
(* step that runs up to the await, the storage operation landing, and the  *)
(* step that runs the code after the await.                                *)
(***************************************************************************)
EXTENDS Integers, Sequences, FiniteSets, TLC

\* ---------------------------------------------------------------- bounds
MaxSockets == 2      \* WebSockets accepted at the same time
MaxVaried == 3       \* log length below which every client action is explored
MaxLen == 20         \* log length cap (two persistence periods)
SmallPayload == 100  \* serialized length of an ordinary action, owner field apart
MaxFaults == 1       \* storage operations that reject
MaxBroken == 1       \* accepted sockets whose transport is broken at the same time
MaxFaultLen == 1     \* log and snapshot length up to which failures are explored
MaxViewLen == 2      \* pages: action list and log length up to which pages draw
MaxRejoins == 1      \* pages: reconnections of one page
MaxMsgs == 3         \* canvas: messages one page handles
MaxLogLen == 2       \* canvas: length of a received log
MaxTime == 20000     \* client: the time in ms up to which the clock advances
TickMs == 1000       \* client: the step of the clock in ms

\* ------------------------------------------------------- program constants
PersistEvery == 10           \* this.drawings.length % 10 === 0
MaxActionSize == 900 * 1024  \* actionStr.length > 900 * 1024
UserIdFieldLen == 48         \* ,"userId":"<36-character randomUUID>"

\* Session ids (crypto.randomUUID() values); a new connection takes one that
\* occurs nowhere in the room's state.
Ids == {"u1", "u2", "u3"}
NoUser == "none"
\* storage.get('drawings'): undefined, or the array last written.
NoValue == [has |-> FALSE, value |-> <<>>]
Value(log) == [has |-> TRUE, value |-> log]
NoAction == [type |-> "none", userId |-> NoUser, payload |-> 0]

validDrawTypes == {"start", "draw", "end", "shape", "text", "image"}
HighValue == {"image", "end", "shape", "text"}
Atomic == {"shape", "text", "image"}

VARIABLES
    sockets,    \* state.getWebSockets(): the session ids of the accepted sockets
    drawings,   \* this.drawings
    stored,     \* storage key 'drawings': NoValue or Value(array last written)
    awaiting,   \* handlers suspended at an await of a storage operation
    sent,       \* the sends of the last step, in order (ok: the send did not throw)
    ev,         \* the last step, see Event
    faults,     \* how many storage operations have rejected
    broken,     \* the accepted sockets whose send() throws (the peer is gone)
    view,       \* per session, its page's canvas.drawingActions (see Shown)
    readyState, \* client: this.ws.readyState of the WebSocketClient
    reconnectAttempts,  \* client: this.reconnectAttempts
    status,     \* client: the last status given to onConnectionChange
    timers,     \* client: the pending setTimeout calls of attemptReconnect
    now,        \* client: the time in ms
    attemptsMade,   \* history: connect() calls of the timer since the last open
    errored,    \* client: onerror has run for the socket of this.ws
    orphans,    \* client: sockets not closed that this.ws no longer refers to
    offline,    \* the page whose connection is lost and not yet re-established
    former,     \* history: per session, the earlier session ids of its page
    drawingActions, \* canvas of one page: this.drawingActions (see Entry)
    decoding,   \* canvas: the drawImageOnCanvas promises not yet resolved
    received,   \* history: the messages the page has handled, in order
    overlap     \* history: the last message began a replay while one was suspended

\* The room's variables, the pages' action lists, the client's connection.
roomVars == <<sockets, drawings, stored, awaiting, sent, ev, faults, broken>>
connVars == <<readyState, reconnectAttempts, status, timers, now, attemptsMade,
              errored, orphans>>
pageVars == <<offline, former>>
canvasVars == <<drawingActions, decoding, received, overlap>>
clientVars == <<view, connVars, pageVars, canvasVars>>
vars == <<roomVars, clientVars>>

\* ------------------------------------------------------------- sequences
RECURSIVE SeqOfSet(_)
SeqOfSet(S) ==
    IF S = {} THEN <<>>
    ELSE LET x == CHOOSE y \in S : \A z \in S : y <= z
         IN <<x>> \o SeqOfSet(S \ {x})

IdIndex(u) == CASE u = "u1" -> 1 [] u = "u2" -> 2 [] u = "u3" -> 3 [] OTHER -> 0

\* Array.prototype.splice(start, count): the array without count entries from
\* the 1-based position start.
Splice(s, start, count) ==
    [k \in 1..(Len(s) - count) |-> IF k < start THEN s[k] ELSE s[k + count]]

IsPrefix(p, s) == Len(p) <= Len(s) /\ SubSeq(s, 1, Len(p)) = p

\* ------------------------------------------------------------- messages
Msg(to, type, action, log, count) ==
    [to |-> to, type |-> type, action |-> action, drawings |-> log, count |-> count,
     ok |-> TRUE]

LoadState(to, log, n) == Msg(to, "load-state", NoAction, log, n)
UserCount(to, n) == Msg(to, "user-count", NoAction, <<>>, n)
DrawMsg(to, action) == Msg(to, "draw", action, <<>>, 0)
\* Variant: the reload-state carries no drawings.
ReloadStateEmpty(to, log) == Msg(to, "reload-state", NoAction, <<>>, 0)
ReloadState(to, log) == Msg(to, "reload-state", NoAction, log, 0)
ClearMsg(to) == Msg(to, "clear", NoAction, <<>>, 0)
ErrorMsg(to) == Msg(to, "error", NoAction, <<>>, 0)
CursorMsg(to, sessionId) ==
    Msg(to, "cursor-move", [type |-> "cursor", userId |-> sessionId, payload |-> 0], <<>>, 0)

\* The sockets of S in the order getWebSockets() lists them.
InOrder(S) ==
    LET idx == SeqOfSet({IdIndex(u) : u \in S})
    IN [k \in 1..Len(idx) |-> CHOOSE u \in S : IdIndex(u) = idx[k]]

\* socket.send(msg): it throws when the socket's transport is broken.
Send(m) == [m EXCEPT !.ok = (m.to \notin broken)]

\* The loop of broadcast / broadcastAll over the sockets in the set to: one
\* send each, a send that throws is caught inside the loop.
SendEach(m, to) ==
    LET order == InOrder(to)
    IN [k \in 1..Len(order) |-> Send(m[order[k]])]

\* Variant: no try/catch around send, the loop ends at the first send that throws.
SendEachAborts(m, to) ==
    LET order == InOrder(to)
        bad == {k \in 1..Len(order) : order[k] \in broken}
        last == IF bad = {} THEN Len(order) ELSE CHOOSE k \in bad : \A j \in bad : k <= j
    IN [k \in 1..last |-> Send(m[order[k]])]

\* Variant: broadcast without the socket !== sender test.
BroadcastEchoes(m, sender) == SendEach(m, sockets)

\* broadcast(message, sender): one send to every accepted socket but sender;
\* m[to] is the message as socket to receives it.
Broadcast(m, sender) == SendEach(m, sockets \ {sender})

\* Variant: broadcastAll without the try/catch around send.
BroadcastAllAborts(m) == SendEachAborts(m, sockets)

\* broadcastAll(message): one send to every accepted socket.
BroadcastAll(m) == SendEach(m, sockets)

\* ------------------------------------------------------- the draw handler
\* JSON.stringify(data.action).length: the action's own fields, and its userId
\* field when the client sent one.
SerializedLen(a) ==
    a.payload + (IF a.userId = NoUser THEN 0 ELSE UserIdFieldLen)

TooLarge(a) == SerializedLen(a) > MaxActionSize

\* Variant: { userId: sessionId, ...data.action }, the client's userId field wins.
TaggedClientWins(a, sessionId) ==
    [type |-> a.type,
     userId |-> IF a.userId = NoUser THEN sessionId ELSE a.userId,
     payload |-> a.payload]

\* { ...data.action, userId: sessionId }
Tagged(a, sessionId) ==
    [type |-> a.type, userId |-> sessionId, payload |-> a.payload]

\* Variant: the cadence of the earlier revision, images and every 10th action.
ShouldPersistImagesOnly(action, log) ==
    \/ action.type = "image"
    \/ Len(log) % PersistEvery = 0

ShouldPersist(action, log) ==
    \/ action.type = "image"
    \/ action.type = "end"
    \/ action.type = "shape"
    \/ action.type = "text"
    \/ Len(log) % PersistEvery = 0

\* ------------------------------------------------------- the undo handler
\* The largest position below i (0 when there is none) of a 'start' of sessionId.
StartBelow(log, sessionId, i) ==
    LET S == {j \in 1..(i - 1) : log[j].userId = sessionId /\ log[j].type = "start"}
    IN IF S = {} THEN 0 ELSE CHOOSE j \in S : \A k \in S : k <= j

\* Variant: the scan without the item.userId !== sessionId test.
UndoTargetAnyOwner(log, sessionId) ==
    LET S == {i \in 1..Len(log) : log[i].type \in {"end"} \cup Atomic}
    IN IF S = {} THEN 0 ELSE CHOOSE i \in S : \A k \in S : k <= i

\* The position the backward scan stops at (0 when it runs off the array): the
\* last entry of sessionId that is an 'end' or an atomic action.
UndoTarget(log, sessionId) ==
    LET S == {i \in 1..Len(log) :
                 /\ log[i].userId = sessionId
                 /\ log[i].type \in {"end"} \cup Atomic}
    IN IF S = {} THEN 0 ELSE CHOOSE i \in S : \A k \in S : k <= i

\* Variant: the undo of the earlier revision, this.drawings.pop().
UndoLogPop(log, sessionId) == SubSeq(log, 1, Len(log) - 1)

\* this.drawings after the undo of sessionId.
UndoLog(log, sessionId) ==
    LET i == UndoTarget(log, sessionId)
    IN IF i = 0 THEN log
       ELSE IF log[i].type = "end"
            THEN LET cut == Splice(log, i, 1)
                     j == StartBelow(cut, sessionId, i)
                 IN IF j = 0 THEN cut ELSE Splice(cut, j, i - j)
            ELSE Splice(log, i, 1)

\* ------------------------------------------------------------ the actions
Owners(log) == {log[k].userId : k \in 1..Len(log)}

StoredLog == stored.value

\* Variant: events are delivered while a handler waits for storage.
GateAlwaysOpen == TRUE

\* Durable Object input gate: no event is delivered to the object while one of
\* its handlers waits for a storage operation.
InputGateOpen == awaiting = {}

\* crypto.randomUUID(): an id that occurs nowhere in the room, and that no page
\* still present has had.
FreshIds ==
    Ids \ (sockets \cup Owners(drawings) \cup Owners(StoredLog) \cup {k.ws : k \in awaiting}
           \cup offline.was \cup UNION {former[s] : s \in Ids})

NewSessionId == CHOOSE u \in FreshIds : \A v \in FreshIds : IdIndex(u) <= IdIndex(v)

Suspended(op, ws, action, value) ==
    [op |-> op, ws |-> ws, action |-> action, value |-> value, io |-> "pending"]

\* The draw actions explored: every kind tag and an unknown one; with and without
\* a userId field of the client's; of ordinary length (an image: exactly at the
\* ceiling) and just over the ceiling.
PayloadsOf(t) ==
    IF t = "image" THEN {MaxActionSize, MaxActionSize + 1}
    ELSE {SmallPayload, MaxActionSize + 1}

ClientActions ==
    UNION { { [type |-> t, userId |-> u, payload |-> p] :
                u \in Ids \cup {NoUser}, p \in PayloadsOf(t) } :
            t \in validDrawTypes \cup {"bogus"} }

\* Every client action is explored onto logs of fewer than MaxVaried - 1
\* entries; the entry that brings the log to MaxVaried entries is an 'end' or a
\* 'shape' of ordinary length without the field. Longer logs are explored as one
\* stroke in progress: the log holds only 'start' and 'draw' entries of ws, and
\* ws adds a 'draw'. Messages that leave the log as it is (a rejected action, a
\* cursor move, an unrecognised message) are explored where every action is.
\* Once a storage operation has rejected or a transport is broken, actions are
\* appended to logs of up to MaxFaultLen entries. A userId field naming another
\* session names the first of the other ids; an action of an unknown kind, or
\* over the ceiling without the field, is sent without the field. A 'text' or an
\* 'image', which the room appends as it does a 'shape', is sent to an empty log.
InertExplored == Len(drawings) < MaxVaried - 1

Explored(ws, a) ==
    /\ Len(drawings) < MaxLen
    /\ a.userId \in Ids \ {ws}
       => \A v \in Ids \ {ws} : IdIndex(a.userId) <= IdIndex(v)
    /\ a.type \notin validDrawTypes \/ a.payload > MaxActionSize
       => a.userId = NoUser /\ InertExplored
    /\ a.type \in {"text", "image"} => drawings = <<>>
    /\ (faults = 0 /\ broken = {}) \/ Len(drawings) <= MaxFaultLen
    /\ IF InertExplored
       THEN TRUE
       ELSE \/ /\ Len(drawings) < MaxVaried
               /\ a.type \in {"end", "shape"}
               /\ a.userId = NoUser
               /\ a.payload = SmallPayload
            \/ /\ a = [type |-> "draw", userId |-> NoUser, payload |-> SmallPayload]
               /\ \A k \in 1..Len(drawings) :
                     drawings[k].userId = ws /\ drawings[k].type \in {"start", "draw"}

\* The last step, for the properties: the handler (op) and the session it ran
\* for (ws), whether it is suspended at an await or over (at), how many log
\* entries it took out of this.drawings (n), and whether the draw action it
\* appended came with a userId field naming another session (spoof).
Event(op, ws, at, n, spoof) ==
    [op |-> op, ws |-> ws, at |-> at, n |-> n, spoof |-> spoof]

\* Variant: the count is taken before the new socket is accepted.
CountBeforeAccept(accepted, server) == Cardinality(accepted \ {server})

\* fetch: userCount = getWebSockets().length, read after acceptWebSocket.
CountAfterAccept(accepted, server) == Cardinality(accepted)

\* Variant: fetch notifies with broadcastAll, the new socket included.
NotifyAll(accepted, server, userCount) ==
    SendEach([to \in Ids |-> UserCount(to, userCount)], accepted)

\* fetch: this.broadcast({type: 'user-count', count}, server), every accepted
\* socket but the new one.
NotifyOthers(accepted, server, userCount) ==
    SendEach([to \in Ids |-> UserCount(to, userCount)], accepted \ {server})

\* fetch(request): a WebSocket upgrade.
Fetch ==
    /\ InputGateOpen
    /\ Cardinality(sockets) < MaxSockets
    /\ FreshIds # {}
    /\ LET sessionId == NewSessionId
           accepted == sockets \cup {sessionId}
           userCount == CountAfterAccept(accepted, sessionId)
       IN /\ sockets' = accepted
          /\ sent' = <<LoadState(sessionId, drawings, userCount)>>
                     \o NotifyOthers(accepted, sessionId, userCount)
          /\ ev' = Event("join", sessionId, "done", 0, FALSE)
    /\ UNCHANGED <<drawings, stored, awaiting, faults, broken>>

\* Variant: the put is not awaited, the broadcast goes out at once.
BroadcastBeforePut(ws, action, log) ==
    Broadcast([to \in Ids |-> DrawMsg(to, action)], ws)

\* What the draw handler sends before it reaches an await: with a put to await
\* nothing yet (the broadcast follows the await), without one the broadcast.
BroadcastOnAppend(ws, action, log) ==
    IF ShouldPersist(action, log)
    THEN <<>>
    ELSE Broadcast([to \in Ids |-> DrawMsg(to, action)], ws)

\* webSocketMessage, case 'draw'.
WebSocketMessageDraw(ws, a) ==
    /\ InputGateOpen
    /\ ws \in sockets
    /\ (a = NoAction /\ InertExplored) \/ Explored(ws, a)
    /\ IF a = NoAction \/ a.type \notin validDrawTypes
       THEN /\ sent' = <<>>
            /\ ev' = Event("draw", ws, "done", 0, FALSE)
            /\ UNCHANGED <<drawings, awaiting>>
       ELSE IF TooLarge(a)
       THEN /\ sent' = <<Send(ErrorMsg(ws))>>
            /\ ev' = Event("draw", ws, "done", 0, FALSE)
            /\ UNCHANGED <<drawings, awaiting>>
       ELSE LET action == Tagged(a, ws)
                log == Append(drawings, action)
                spoof == a.userId \notin {NoUser, ws}
            IN /\ drawings' = log
               /\ sent' = BroadcastOnAppend(ws, action, log)
               /\ IF ShouldPersist(action, log)
                  THEN /\ awaiting' = awaiting \cup {Suspended("draw", ws, action, Value(log))}
                       /\ ev' = Event("draw", ws, "await", 0, spoof)
                  ELSE /\ ev' = Event("draw", ws, "done", 0, spoof)
                       /\ UNCHANGED awaiting
    /\ UNCHANGED <<sockets, stored, faults, broken>>

\* Variant: the earlier revision, which relays any position.
AnyPosition(numeric) == TRUE

\* cursor-move: data.position with x and y of type number.
ValidPosition(numeric) == numeric

\* webSocketMessage, case 'cursor-move'.
WebSocketMessageCursor(ws, numeric) ==
    /\ InputGateOpen
    /\ ws \in sockets
    /\ sent' = IF ValidPosition(numeric)
               THEN Broadcast([to \in Ids |-> CursorMsg(to, ws)], ws)
               ELSE <<>>
    /\ ev' = Event("cursor-move", ws, "done", 0, FALSE)
    /\ UNCHANGED <<sockets, drawings, stored, awaiting, faults, broken>>

\* Variant: the put of undo and clear writes nothing new.
WrittenStale(log) == stored

\* storage.put('drawings', this.drawings) of undo and clear: the value written.
Written(log) == Value(log)

\* webSocketMessage, case 'undo'.
WebSocketMessageUndo(ws) ==
    /\ InputGateOpen
    /\ ws \in sockets
    /\ LET log == UndoLog(drawings, ws)
           removed == Len(drawings) > 0 /\ UndoTarget(drawings, ws) # 0
       IN IF removed
          THEN /\ drawings' = log
               /\ awaiting' = awaiting \cup {Suspended("undo", ws, NoAction, Written(log))}
               /\ ev' = Event("undo", ws, "await", Len(drawings) - Len(log), FALSE)
          ELSE /\ ev' = Event("undo", ws, "done", 0, FALSE)
               /\ UNCHANGED <<drawings, awaiting>>
    /\ sent' = <<>>
    /\ UNCHANGED <<sockets, stored, faults, broken>>

\* Variant: clear removes the entries of the requester only.
RECURSIVE ClearedOwnOnly(_, _)
ClearedOwnOnly(log, sessionId) ==
    IF log = <<>> THEN <<>>
    ELSE IF log[1].userId = sessionId THEN ClearedOwnOnly(Tail(log), sessionId)
    ELSE <<log[1]>> \o ClearedOwnOnly(Tail(log), sessionId)

\* clear: this.drawings = [].
Cleared(log, sessionId) == <<>>

\* webSocketMessage, case 'clear'.
WebSocketMessageClear(ws) ==
    /\ InputGateOpen
    /\ ws \in sockets
    /\ drawings' = Cleared(drawings, ws)
    /\ awaiting' = awaiting \cup {Suspended("clear", ws, NoAction, Written(drawings'))}
    /\ sent' = <<>>
    /\ ev' = Event("clear", ws, "await", Len(drawings), FALSE)
    /\ UNCHANGED <<sockets, stored, faults, broken>>

\* Variant: the catch answers the sender with an error message.
RepliesError(ws) == <<Send(ErrorMsg(ws))>>

\* What a message that is not understood is answered with: nothing (the catch
\* logs the error, the switch has no default case).
Replies(ws) == <<>>

\* webSocketMessage: a message that JSON.parse rejects, or of no known type.
WebSocketMessageOther(ws) ==
    /\ InputGateOpen
    /\ ws \in sockets
    /\ sent' = Replies(ws)
    /\ ev' = Event("other", ws, "done", 0, FALSE)
    /\ UNCHANGED <<sockets, drawings, stored, awaiting, faults, broken>>

\* Variant: the closed socket is not filtered out of getWebSockets().
RemainingKeepsClosed(accepted, ws) == accepted

\* webSocketClose: remaining = sockets.filter(s => s !== ws).
Remaining(accepted, ws) == accepted \ {ws}

\* Variant: deleteAll leaves the stored array in place.
DeleteAllKeeps(st) == st

\* storage.deleteAll(): what the storage holds afterwards.
DeleteAll(st) == NoValue

\* webSocketClose(ws), up to the await of deleteAll. The closed socket is no
\* longer among the accepted ones once the handler is over.
WebSocketClose(ws) ==
    /\ InputGateOpen
    /\ ws \in sockets
    /\ LET remaining == Remaining(sockets, ws)
           userCount == Cardinality(remaining)
       IN /\ sockets' = sockets \ {ws}
          /\ broken' = broken \ {ws}
          /\ sent' = SendEach([to \in Ids |-> UserCount(to, userCount)], remaining)
          /\ IF userCount = 0
             THEN /\ awaiting' = awaiting \cup {Suspended("close", ws, NoAction, DeleteAll(stored))}
                  /\ ev' = Event("close", ws, "await", 0, FALSE)
             ELSE /\ ev' = Event("close", ws, "done", 0, FALSE)
                  /\ UNCHANGED awaiting
    /\ UNCHANGED <<drawings, stored, faults>>

\* storage.put('drawings', value) / storage.deleteAll() takes effect and its
\* promise resolves.
StorageCompletes(k) ==
    /\ k \in awaiting
    /\ k.io = "pending"
    /\ stored' = k.value
    /\ awaiting' = (awaiting \ {k}) \cup {[k EXCEPT !.io = "ok"]}
    /\ sent' = <<>>
    /\ UNCHANGED <<sockets, drawings, ev, faults, broken>>

\* storage.put / storage.deleteAll rejects: nothing is written.
StorageFails(k) ==
    /\ k \in awaiting
    /\ k.io = "pending"
    /\ faults < MaxFaults
    /\ Len(drawings) <= MaxFaultLen
    /\ Len(stored.value) <= MaxFaultLen
    /\ faults' = faults + 1
    /\ awaiting' = (awaiting \ {k}) \cup {[k EXCEPT !.io = "failed"]}
    /\ sent' = <<>>
    /\ UNCHANGED <<sockets, drawings, stored, ev, broken>>

\* Variant: the in-memory array is kept.
AfterDeleteAllKeeps(log) == log

\* webSocketClose after deleteAll: this.drawings = [].
AfterDeleteAll(log) == <<>>

\* The code after the await, once the storage operation has resolved.
Resume(k) ==
    /\ k \in awaiting
    /\ k.io = "ok"
    /\ awaiting' = awaiting \ {k}
    /\ CASE k.op = "draw" ->
              /\ sent' = Broadcast([to \in Ids |-> DrawMsg(to, k.action)], k.ws)
              /\ ev' = [ev EXCEPT !.op = k.op, !.ws = k.ws, !.at = "done"]
              /\ UNCHANGED drawings
         [] k.op = "undo" ->
              /\ sent' = BroadcastAll([to \in Ids |-> ReloadState(to, drawings)])
              /\ ev' = [ev EXCEPT !.op = k.op, !.ws = k.ws, !.at = "done"]
              /\ UNCHANGED drawings
         [] k.op = "clear" ->
              /\ sent' = BroadcastAll([to \in Ids |-> ClearMsg(to)])
              /\ ev' = [ev EXCEPT !.op = k.op, !.ws = k.ws, !.at = "done"]
              /\ UNCHANGED drawings
         [] k.op = "close" ->
              /\ sent' = <<>>
              /\ drawings' = AfterDeleteAll(drawings)
              /\ ev' = Event("close", k.ws, "done", Len(drawings) - Len(drawings'), FALSE)
    /\ UNCHANGED <<sockets, stored, faults, broken>>

\* Variant: the catch puts this.drawings back to what the storage holds.
AfterFailedWriteRollsBack(log, st) == st.value

\* this.drawings after a failed write: the catch only logs the error.
AfterFailedWrite(log, st) == log

\* The await throws: webSocketMessage's catch logs the error; webSocketClose
\* has no catch and ends there.
ResumeThrows(k) ==
    /\ k \in awaiting
    /\ k.io = "failed"
    /\ awaiting' = awaiting \ {k}
    /\ sent' = <<>>
    /\ drawings' = AfterFailedWrite(drawings, stored)
    /\ ev' = [ev EXCEPT !.op = k.op, !.ws = k.ws, !.at = "threw"]
    /\ UNCHANGED <<sockets, stored, faults, broken>>

\* Variant: the constructor does not read the storage.
LoadedNothing(st) == <<>>

\* this.drawings as the constructor leaves it: the stored array if there is one.
Loaded(st) == IF st.has THEN st.value ELSE <<>>

\* The object is evicted from memory and constructed again for its next event:
\* constructor(state, env) under blockConcurrencyWhile.
Constructor ==
    /\ InputGateOpen
    /\ drawings' = Loaded(stored)
    /\ sent' = <<>>
    /\ ev' = Event("constructor", NoUser, "done", Len(drawings) - Len(drawings'), FALSE)
    /\ UNCHANGED <<sockets, stored, awaiting, faults, broken>>

\* ------------------------------------------------- the canvas of one page
\* The kinds told apart: an image is drawn when its decode has finished, every
\* other kind at once.
CanvasKinds == {"image", "shape"}

\* The logs a load-state or reload-state message carries.
Logs == UNION {[1..n -> CanvasKinds] : n \in 0..MaxLogLen}

\* A received action: its kind, the message that brought it (its index in
\* received) and its position in that message's log (1 for a draw message).
Entry(type, from, pos) == [type |-> type, from |-> from, pos |-> pos]

PageMsg(type, action, log) == [type |-> type, action |-> action, drawings |-> log]

\* constructor: this.drawingActions = [].
CanvasConstructor ==
    /\ drawingActions = <<>>
    /\ decoding = {}
    /\ received = <<>>
    /\ overlap = FALSE

\* A promise of drawImageOnCanvas with what runs when it resolves: the push of
\* the image and, for one awaited by reloadFromState, the rest of its loop.
Decode(entry, log, replay) == [entry |-> entry, log |-> log, replay |-> replay]

\* reloadFromState: the loop over drawings from position pos on, up to the
\* first image, whose drawRemote it awaits. An entry of another kind is drawn
\* and pushed by drawRemote and the loop goes on.
RECURSIVE ReplayFrom(_, _, _, _)
ReplayFrom(list, log, from, pos) ==
    IF pos > Len(log) THEN [list |-> list, waits |-> {}]
    ELSE IF log[pos] = "image"
    THEN [list |-> list, waits |-> {Decode(Entry("image", from, pos), log, TRUE)}]
    ELSE ReplayFrom(Append(list, Entry(log[pos], from, pos)), log, from, pos + 1)

\* reloadFromState(drawings): clear(), then the loop.
ReloadFromStateAsync(log, from) ==
    LET r == ReplayFrom(<<>>, log, from, 1)
    IN  /\ drawingActions' = r.list
        /\ decoding' = decoding \cup r.waits

\* A replay is suspended on the decode of an image.
ReplaySuspended == \E t \in decoding : t.replay

\* load-state, the first message on the socket: reloadFromState unless the log
\* is empty.
OnLoadState(log) ==
    /\ received = <<>>
    /\ received' = <<PageMsg("load-state", "none", log)>>
    /\ overlap' = FALSE
    /\ IF log # <<>> THEN ReloadFromStateAsync(log, 1)
       ELSE UNCHANGED <<drawingActions, decoding>>

\* reload-state: reloadFromState(drawings), not awaited.
OnReloadState(log) ==
    /\ received # <<>>
    /\ Len(received) < MaxMsgs
    /\ received' = Append(received, PageMsg("reload-state", "none", log))
    /\ overlap' = ReplaySuspended
    /\ ReloadFromStateAsync(log, Len(received'))

\* draw: drawRemote(action), not awaited. An image is pushed when its promise
\* resolves, another kind at once.
OnDraw(type) ==
    /\ received # <<>>
    /\ Len(received) < MaxMsgs
    /\ received' = Append(received, PageMsg("draw", type, <<>>))
    /\ overlap' = FALSE
    /\ IF type = "image"
       THEN /\ decoding' = decoding \cup
                  {Decode(Entry(type, Len(received'), 1), <<type>>, FALSE)}
            /\ UNCHANGED drawingActions
       ELSE /\ drawingActions' = Append(drawingActions, Entry(type, Len(received'), 1))
            /\ UNCHANGED decoding

\* clear: canvas.clear().
OnClear ==
    /\ received # <<>>
    /\ Len(received) < MaxMsgs
    /\ received' = Append(received, PageMsg("clear", "none", <<>>))
    /\ overlap' = FALSE
    /\ drawingActions' = <<>>
    /\ UNCHANGED decoding

\* img.onload or img.onerror of a pending decode: the promise resolves, the
\* image is pushed, and a reloadFromState that awaited it goes on with its loop.
ImageLoads(t) ==
    /\ t \in decoding
    /\ LET pushed == Append(drawingActions, t.entry)
           r == IF t.replay THEN ReplayFrom(pushed, t.log, t.entry.from, t.entry.pos + 1)
                ELSE [list |-> pushed, waits |-> {}]
       IN  /\ drawingActions' = r.list
           /\ decoding' = (decoding \ {t}) \cup r.waits
    /\ UNCHANGED <<received, overlap>>

\* ------------------------------------------------- the client's connection
\* src/src/websocket.js. The WebSocketClient of one page: its socket, its
\* retry counter, the status it reports and the timeouts it has set.
maxReconnectAttempts == 5
reconnectDelay == 1000

\* constructor: the counter is zero and connect() is called at once.
ClientConstructor ==
    /\ readyState = "connecting"
    /\ reconnectAttempts = 0
    /\ status = "none"
    /\ timers = {}
    /\ now = 0
    /\ attemptsMade = 0
    /\ errored = FALSE
    /\ orphans = 0

\* Variant: onopen leaves the counter as it is.
AfterOpenKeeps(n) == n
\* onopen: this.reconnectAttempts = 0.
AfterOpen(n) == 0

\* ws.onopen.
OnOpen ==
    /\ readyState = "connecting"
    /\ ~errored
    /\ readyState' = "open"
    /\ reconnectAttempts' = AfterOpen(reconnectAttempts)
    /\ status' = "connected"
    /\ attemptsMade' = 0
    /\ UNCHANGED <<timers, now, errored, orphans>>

\* Variant: one attempt more than the budget.
MayRetryOnceMore(n) == n <= maxReconnectAttempts
\* attemptReconnect: the condition of the retry.
MayRetry(n) == n < maxReconnectAttempts

\* Variant: every retry waits the base delay.
DelayConstant(n) == reconnectDelay
\* attemptReconnect: the timeout of the n-th retry.
Delay(n) == reconnectDelay * n

SetTimeout(delay) == [due |-> now + delay, delay |-> delay]

\* ws.onclose, of a socket that is opening or open: reports 'disconnected',
\* then attemptReconnect().
OnClose ==
    /\ readyState \in {"connecting", "open"}
    /\ readyState' = "closed"
    /\ errored' = FALSE
    /\ IF MayRetry(reconnectAttempts)
       THEN /\ reconnectAttempts' = reconnectAttempts + 1
            /\ status' = "connecting"
            /\ timers' = timers \cup {SetTimeout(Delay(reconnectAttempts'))}
       ELSE /\ status' = "disconnected"
            /\ UNCHANGED <<reconnectAttempts, timers>>
    /\ UNCHANGED <<now, attemptsMade, orphans>>

\* Variant: onerror starts a retry as onclose does.
ErrorRetriesToo == TRUE
\* ws.onerror: console.error only.
ErrorRetries == FALSE

\* ws.onerror, of a socket that is opening or open; its close event follows.
OnError ==
    /\ readyState \in {"connecting", "open"}
    /\ ~errored
    /\ errored' = TRUE
    /\ IF ErrorRetries /\ MayRetry(reconnectAttempts)
       THEN /\ reconnectAttempts' = reconnectAttempts + 1
            /\ status' = "connecting"
            /\ timers' = timers \cup {SetTimeout(Delay(reconnectAttempts'))}
       ELSE UNCHANGED <<reconnectAttempts, status, timers>>
    /\ UNCHANGED <<readyState, now, attemptsMade, orphans>>

\* A timeout of attemptReconnect is due: connect() makes a new socket.
Connect(t) ==
    /\ t \in timers
    /\ now >= t.due
    /\ timers' = timers \ {t}
    /\ orphans' = IF readyState \in {"connecting", "open"} THEN orphans + 1 ELSE orphans
    /\ readyState' = "connecting"
    /\ errored' = FALSE
    /\ attemptsMade' = attemptsMade + 1
    /\ UNCHANGED <<reconnectAttempts, status, now>>

\* Time passes.
Tick ==
    /\ now < MaxTime
    /\ now' = now + TickMs
    /\ UNCHANGED <<readyState, reconnectAttempts, status, timers, attemptsMade,
                   errored, orphans>>

\* ------------------------------------------------------------- the pages
\* src/src/canvas.js and src/src/websocket.js. view[s] is canvas.drawingActions
\* of the page whose socket is session s. The list is compared with the log by
\* kind and content: the page's own copies carry no userId.
Shown(a) == [type |-> a.type, payload |-> a.payload]

ShownLog(log) == [k \in 1..Len(log) |-> Shown(log[k])]

\* The actions the canvas emits: the six kinds, without userId; importImage
\* refuses an image of more than 500 KB, the text tool takes any text.
CanvasActions ==
    { a \in ClientActions :
        /\ a.userId = NoUser
        /\ a.type \in validDrawTypes
        /\ SerializedLen(a) > MaxActionSize => a.type = "text" }

\* socket.emitDraw(action); this.drawingActions.push(action).
Emitted(list, a) == Append(list, Shown(a))

\* canvas.reloadFromState: clear(), then drawRemote of each entry.
ReloadFromState(log) == ShownLog(log)

\* handleMessage and the handlers main.js gives it, on the action list.
HandleMessage(list, m) ==
    CASE m.type = "load-state" ->
            IF Len(m.drawings) > 0 THEN ReloadFromState(m.drawings) ELSE list
      [] m.type = "draw" -> Append(list, Shown(m.action))
      [] m.type = "reload-state" -> ReloadFromState(m.drawings)
      [] m.type = "clear" -> <<>>
      [] OTHER -> list

RECURSIVE Received(_, _, _)
\* The list of page s after the messages of msgs that reached it, in order.
Received(list, s, msgs) ==
    IF msgs = <<>> THEN list
    ELSE Received(IF Head(msgs).to = s /\ Head(msgs).ok
                  THEN HandleMessage(list, Head(msgs)) ELSE list,
                  s, Tail(msgs))

\* The pages after a step of the room in which the page of session emitter
\* (NoUser: none) has emitted action a: every send of the step is delivered;
\* the page of a closed socket is gone.
Pages(emitter, a) ==
    /\ view' = [s \in Ids |->
                  IF s \in sockets'
                  THEN Received(IF s = emitter THEN Emitted(view[s], a) ELSE view[s],
                                s, sent')
                  ELSE <<>>]
    /\ UNCHANGED <<canvasVars, connVars, pageVars>>

\* Pages draw while the log and every action list are short.
PagesExplored ==
    /\ Len(drawings) < MaxViewLen
    /\ \A s \in Ids : Len(view[s]) < MaxViewLen

\* ------------------------------------------------- pages that reconnect
\* A page outlives its socket: canvas.drawingActions stays as it is while the
\* WebSocketClient reconnects, and the new connection is a new session of the
\* room. An action emitted meanwhile is told apart by its content.
NoPage == [on |-> FALSE, list |-> <<>>, was |-> {}, unsent |-> <<>>]
OfflinePayload == SmallPayload + 1
\* The kinds the pages that reconnect draw: a stroke and an atomic action.
RejoinKinds == {"start", "end", "shape"}

\* Variant: send keeps the message for the next open socket.
UnsentQueued(unsent, a) == Append(unsent, a)
\* send(type, payload) while readyState is not OPEN: nothing is sent or kept.
Unsent(unsent, a) == unsent

\* The pages after a step of the room in which the page of session emitter has
\* emitted action a and the page of the accepted session, if any, had list start.
PagesAfter(emitter, a, start) ==
    view' = [s \in Ids |->
               IF s \in sockets'
               THEN Received(IF s \notin sockets THEN start
                             ELSE IF s = emitter THEN Emitted(view[s], a)
                             ELSE view[s],
                             s, sent')
               ELSE <<>>]

\* A step of the room that accepts and closes no socket.
PagesStay(emitter, a) ==
    /\ PagesAfter(emitter, a, <<>>)
    /\ UNCHANGED <<canvasVars, connVars, pageVars>>

\* fetch, for a page just loaded.
PageLoads ==
    /\ PagesAfter(NoUser, NoAction, <<>>)
    /\ former' = [s \in Ids |-> IF s \in sockets' \ sockets THEN {} ELSE former[s]]
    /\ UNCHANGED <<canvasVars, connVars, offline>>

\* fetch, for the page whose connection was lost: connect() of its client.
PageReconnects ==
    /\ offline.on
    /\ PagesAfter(NoUser, NoAction, offline.list)
    /\ former' = [s \in Ids |-> IF s \in sockets' \ sockets THEN offline.was
                                ELSE former[s]]
    /\ offline' = NoPage
    /\ UNCHANGED <<canvasVars, connVars>>

\* webSocketClose, the page being closed.
PageCloses(ws) ==
    /\ PagesAfter(NoUser, NoAction, <<>>)
    /\ former' = [former EXCEPT ![ws] = {}]
    /\ UNCHANGED <<canvasVars, connVars, offline>>

\* webSocketClose, the connection being lost under a page that stays.
PageDisconnects(ws) ==
    /\ ~offline.on
    /\ Cardinality(former[ws]) < MaxRejoins
    /\ PagesAfter(NoUser, NoAction, <<>>)
    /\ offline' = [on |-> TRUE, list |-> view[ws], was |-> former[ws] \cup {ws},
                   unsent |-> <<>>]
    /\ former' = [former EXCEPT ![ws] = {}]
    /\ UNCHANGED <<canvasVars, connVars>>

\* The canvas of the disconnected page emits: emitDraw sends nothing, the
\* action is pushed to drawingActions.
EmitOffline(a) ==
    /\ offline.on
    /\ Len(offline.list) < MaxViewLen
    /\ offline' = [offline EXCEPT
                     !.list = Emitted(@, [a EXCEPT !.payload = OfflinePayload]),
                     !.unsent = Unsent(@, a)]
    /\ UNCHANGED <<roomVars, view, connVars, former, canvasVars>>

Init ==
    /\ sockets = {}
    /\ drawings = <<>>
    /\ stored = NoValue
    /\ awaiting = {}
    /\ sent = <<>>
    /\ ev = Event("constructor", NoUser, "done", 0, FALSE)
    /\ faults = 0
    /\ broken = {}
    /\ view = [s \in Ids |-> <<>>]
    /\ offline = NoPage
    /\ former = [s \in Ids |-> {}]
    /\ CanvasConstructor
    /\ ClientConstructor

\* The room alone: the pages and the client's connection are not followed.
Next ==
    \/ Fetch /\ UNCHANGED clientVars
    \/ \E ws \in Ids, a \in ClientActions \cup {NoAction} :
          WebSocketMessageDraw(ws, a) /\ UNCHANGED clientVars
    \/ \E ws \in Ids, numeric \in BOOLEAN :
          InertExplored /\ WebSocketMessageCursor(ws, numeric) /\ UNCHANGED clientVars
    \/ \E ws \in Ids : WebSocketMessageUndo(ws) /\ UNCHANGED clientVars
    \/ \E ws \in Ids : WebSocketMessageClear(ws) /\ UNCHANGED clientVars
    \/ \E ws \in Ids : InertExplored /\ WebSocketMessageOther(ws) /\ UNCHANGED clientVars
    \/ \E ws \in Ids : WebSocketClose(ws) /\ UNCHANGED clientVars
    \/ \E k \in awaiting : StorageCompletes(k) /\ UNCHANGED clientVars
    \/ \E k \in awaiting : Resume(k) /\ UNCHANGED clientVars
    \/ Constructor /\ UNCHANGED clientVars

Spec == Init /\ [][Next]_vars

\* The same room when storage operations may fail.
NextFault ==
    \/ Next
    \/ \E k \in awaiting : StorageFails(k) /\ UNCHANGED clientVars
    \/ \E k \in awaiting : ResumeThrows(k) /\ UNCHANGED clientVars

SpecFault == Init /\ [][NextFault]_vars

\* The peer of an accepted socket goes away: from now on send() on the socket
\* throws; its close event comes later.
TransportBreaks(ws) ==
    /\ ws \in sockets \ broken
    /\ Cardinality(broken) < MaxBroken
    /\ Len(drawings) <= MaxFaultLen
    /\ broken' = broken \cup {ws}
    /\ sent' = <<>>
    /\ UNCHANGED <<sockets, drawings, stored, awaiting, ev, faults>>

\* The same room when sends may fail.
NextSendFault ==
    \/ Next
    \/ \E ws \in Ids : TransportBreaks(ws) /\ UNCHANGED clientVars

SpecSendFault == Init /\ [][NextSendFault]_vars

\* The room and the pages of its sessions. Undo and clear buttons only emit.
NextView ==
    \/ Fetch /\ Pages(NoUser, NoAction)
    \/ \E ws \in Ids, a \in CanvasActions :
          PagesExplored /\ WebSocketMessageDraw(ws, a) /\ Pages(ws, a)
    \/ \E ws \in Ids : WebSocketMessageCursor(ws, TRUE) /\ Pages(NoUser, NoAction)
    \/ \E ws \in Ids : WebSocketMessageUndo(ws) /\ Pages(NoUser, NoAction)
    \/ \E ws \in Ids : WebSocketMessageClear(ws) /\ Pages(NoUser, NoAction)
    \/ \E ws \in Ids : WebSocketClose(ws) /\ Pages(NoUser, NoAction)
    \/ \E k \in awaiting : StorageCompletes(k) /\ Pages(NoUser, NoAction)
    \/ \E k \in awaiting : Resume(k) /\ Pages(NoUser, NoAction)
    \/ Constructor /\ Pages(NoUser, NoAction)

SpecView == Init /\ [][NextView]_vars

\* The room, the pages of its sessions and the page that has lost its connection.
NextRejoin ==
    \/ Fetch /\ PageLoads
    \/ Fetch /\ PageReconnects
    \/ \E ws \in Ids, a \in CanvasActions :
          /\ PagesExplored
          /\ a.payload = SmallPayload /\ a.type \in RejoinKinds
          /\ WebSocketMessageDraw(ws, a)
          /\ PagesStay(ws, a)
    \/ \E ws \in Ids : WebSocketMessageUndo(ws) /\ PagesStay(NoUser, NoAction)
    \/ \E ws \in Ids : WebSocketMessageClear(ws) /\ PagesStay(NoUser, NoAction)
    \/ \E ws \in Ids : WebSocketClose(ws) /\ PageCloses(ws)
    \/ \E ws \in Ids : WebSocketClose(ws) /\ PageDisconnects(ws)
    \/ \E a \in CanvasActions : a.type = "shape" /\ EmitOffline(a)
    \/ \E k \in awaiting : StorageCompletes(k) /\ PagesStay(NoUser, NoAction)
    \/ \E k \in awaiting : Resume(k) /\ PagesStay(NoUser, NoAction)

SpecRejoin == Init /\ [][NextRejoin]_vars

\* The client's connection alone.
NextClient ==
    \/ OnOpen /\ UNCHANGED <<roomVars, view, pageVars, canvasVars>>
    \/ OnClose /\ UNCHANGED <<roomVars, view, pageVars, canvasVars>>
    \/ OnError /\ UNCHANGED <<roomVars, view, pageVars, canvasVars>>
    \/ \E t \in timers : Connect(t) /\ UNCHANGED <<roomVars, view, pageVars, canvasVars>>
    \/ Tick /\ UNCHANGED <<roomVars, view, pageVars, canvasVars>>

SpecClient == Init /\ [][NextClient]_vars

\* One page's canvas and the messages its socket delivers.
NextPage ==
    \/ \E log \in Logs : OnLoadState(log) /\ UNCHANGED <<roomVars, view, connVars, pageVars>>
    \/ \E log \in Logs : OnReloadState(log) /\ UNCHANGED <<roomVars, view, connVars, pageVars>>
    \/ \E type \in CanvasKinds : OnDraw(type) /\ UNCHANGED <<roomVars, view, connVars, pageVars>>
    \/ OnClear /\ UNCHANGED <<roomVars, view, connVars, pageVars>>
    \/ \E t \in decoding : ImageLoads(t) /\ UNCHANGED <<roomVars, view, connVars, pageVars>>

SpecPage == Init /\ [][NextPage]_vars

\* ------------------------------------------------------------ properties
\* The entries of log owned by u, in log order.
RECURSIVE OwnedBy(_, _)
OwnedBy(log, u) ==
    IF log = <<>> THEN <<>>
    ELSE IF log[1].userId = u THEN <<log[1]>> \o OwnedBy(Tail(log), u)
    ELSE OwnedBy(Tail(log), u)

\* log without the entries at the positions in P.
RECURSIVE Without(_, _)
Without(log, P) ==
    IF log = <<>> THEN <<>>
    ELSE LET rest == Without(Tail(log), {q - 1 : q \in P \ {1}})
         IN IF 1 \in P THEN rest ELSE <<log[1]>> \o rest

\* The positions of the completed stroke of u that ends at position i: the
\* 'end' at i, the nearest earlier 'start' of u, and the 'draw' entries of u
\* between the two.
StrokeAt(log, u, i) ==
    LET j == StartBelow(log, u, i)
    IN IF j = 0 THEN {i}
       ELSE {i, j} \cup {k \in (j + 1)..(i - 1) :
                            log[k].userId = u /\ log[k].type = "draw"}

\* C1. Undo isolation: an undo of session A removes no log entry owned by
\* another session B, however the entries of A and B interleave in the log.
C1_UndoIsolation ==
    [][ev'.op = "undo" =>
          \A b \in Ids \ {ev'.ws} : OwnedBy(drawings', b) = OwnedBy(drawings, b)]_vars

\* C2. When the requester's last 'end'-or-atomic entry is an 'end', undo removes
\* exactly that completed stroke (its 'end', the nearest earlier 'start' of the
\* requester and the requester's 'draw' entries between them) and nothing else.
C2_UndoRemovesExactlyTheStroke ==
    [][\A ws \in Ids :
          /\ WebSocketMessageUndo(ws)
          /\ UndoTarget(drawings, ws) # 0
          /\ drawings[UndoTarget(drawings, ws)].type = "end"
          => drawings' = Without(drawings, StrokeAt(drawings, ws, UndoTarget(drawings, ws)))]_vars

\* JSON.stringify(entry).length of a log entry: its fields and its userId field.
EntryLen(e) == e.payload + UserIdFieldLen

\* C3. Bounded admission: a draw message whose action serializes to more than
\* 900 KiB leaves the log and the snapshot unchanged, issues no write, and
\* sends exactly one message, an error to its sender; and no log entry ever
\* has a serialized size above 900 KiB.
C3_BoundedAdmission ==
    [][/\ \A k \in 1..Len(drawings') : EntryLen(drawings'[k]) <= MaxActionSize
       /\ \A ws \in Ids, a \in ClientActions :
             WebSocketMessageDraw(ws, a) /\ SerializedLen(a) > MaxActionSize
             => /\ drawings' = drawings
                /\ stored' = stored
                /\ awaiting' = awaiting
                /\ sent' = <<ErrorMsg(ws)>>]_vars

\* p is q with some entries left out, the others in their order.
RECURSIVE IsSubseq(_, _)
IsSubseq(p, q) ==
    IF p = <<>> THEN TRUE
    ELSE IF q = <<>> THEN FALSE
    ELSE IF p[1] = q[1] THEN IsSubseq(Tail(p), Tail(q))
    ELSE IsSubseq(p, Tail(q))

LowValueFrom(log, k) ==
    \A i \in k..Len(log) : log[i].type \in {"start", "draw"}

\* The step delivers this.drawings to a joiner as it is.
JoinerGetsLog ==
    \A i \in 1..Len(sent') : sent'[i].type = "load-state" => sent'[i].drawings = drawings'

\* The step appends one accepted action at the end of the log.
AppendsAccepted ==
    /\ ev'.op = "draw"
    /\ Len(drawings') = Len(drawings) + 1
    /\ SubSeq(drawings', 1, Len(drawings)) = drawings

\* The step takes entries out of the log for an undo, a clear or the teardown.
RemovesEntries ==
    \/ ev'.op = "undo" /\ IsSubseq(drawings', drawings)
    \/ ev'.op = "clear" /\ drawings' = <<>>
    \/ ev'.op = "close" /\ sockets' = {} /\ drawings' = <<>>

\* The step reloads the log from the snapshot and so drops the unpersisted
\* 'start' and 'draw' entries at its end, at most PersistEvery - 1 of them.
DropsUnpersistedTail ==
    /\ ev'.op = "constructor"
    /\ IsPrefix(drawings', drawings)
    /\ Len(drawings) - Len(drawings') <= PersistEvery - 1
    /\ LowValueFrom(drawings, Len(drawings') + 1)

\* C4. Replay order: a joiner receives the accepted actions in append order
\* minus exactly the entries removed by undo or clear (or the teardown): the
\* log is sent as it is, and it only ever changes by an accepted action
\* appended at its end or by such a removal, eviction included.
C4_ReplayOrder ==
    [][/\ JoinerGetsLog
       /\ drawings' # drawings => AppendsAccepted \/ RemovesEntries]_vars

\* C4, amended: as C4, but an eviction also drops the entries appended since
\* the last write: a run of at most 9 'start'/'draw' entries at the end of the
\* log.
C4_ReplayOrderUpToUnpersistedTail ==
    [][/\ JoinerGetsLog
       /\ drawings' # drawings
          => AppendsAccepted \/ RemovesEntries \/ DropsUnpersistedTail]_vars

C4_Witness ==
    /\ ev.op = "join"
    /\ Len(drawings) >= 2
    /\ sent[1] = LoadState(ev.ws, drawings, 2)
    /\ stored.value # drawings

\* C5. Teardown: once the leave of the last session is processed the log is
\* empty and the snapshot is deleted, and the next session to join receives
\* load-state with drawings = [].
C5_Teardown ==
    /\ ev.op = "close" /\ ev.at = "done" /\ sockets = {}
       => drawings = <<>> /\ ~stored.has
    /\ ev.op = "join" /\ sockets = {ev.ws}
       => sent = <<LoadState(ev.ws, <<>>, 1)>>

C5_Witness ==
    /\ ev.op = "close" /\ ev.at = "done" /\ sockets = {}
    /\ ev.n >= 2
    /\ drawings = <<>>
    /\ ~stored.has

\* A message that acknowledges a committed mutation: the draw of a high-value
\* action, a reload-state, a clear.
Acknowledges(m) ==
    \/ m.type = "draw" /\ m.action.type \in HighValue
    \/ m.type \in {"reload-state", "clear"}

\* C6. Commit before acknowledge: when the draw of an image, shape, text or
\* end, the reload-state of an undo or the clear message is sent, the
\* snapshot already holds the log as the mutation left it.
C6_CommitBeforeAcknowledge ==
    \A i \in 1..Len(sent) :
        Acknowledges(sent[i])
        => /\ stored = Value(drawings)
           /\ sent[i].type = "draw" => drawings[Len(drawings)] = sent[i].action
           /\ sent[i].type = "reload-state" => sent[i].drawings = drawings
           /\ sent[i].type = "clear" => drawings = <<>>

C6_Witness ==
    /\ Len(sent) = 1
    /\ sent[1].type = "draw"
    /\ sent[1].action.type = "end"
    /\ Len(drawings) >= 2
    /\ stored = Value(drawings)

\* C7. Snapshot lag bound: between message handlings the snapshot is a prefix
\* of the log, and the entries beyond it are at most 9 and all 'start' or
\* 'draw'.
C7_SnapshotLag ==
    awaiting = {}
    => /\ IsPrefix(stored.value, drawings)
       /\ Len(drawings) - Len(stored.value) <= PersistEvery - 1
       /\ LowValueFrom(drawings, Len(stored.value) + 1)

C7_Witness ==
    /\ awaiting = {}
    /\ stored.has
    /\ Len(stored.value) = PersistEvery
    /\ Len(drawings) - Len(stored.value) = PersistEvery - 1

\* C8. Server-side ownership: the log grows only by the draw handler, by one
\* entry whose owner is the session id of the connection that sent it,
\* whatever userId the action carried.
C8_ServerSideOwnership ==
    [][Len(drawings') > Len(drawings)
       => /\ ev'.op = "draw"
          /\ ev'.ws \in sockets
          /\ drawings' = Append(drawings,
                [drawings'[Len(drawings')] EXCEPT !.userId = ev'.ws])]_vars

C8_Witness ==
    /\ ev.op = "draw" /\ ev.spoof /\ ev.at = "done"
    /\ Len(drawings) >= 2
    /\ drawings[Len(drawings)].userId = ev.ws
    /\ drawings[1].userId # ev.ws

\* C9. A draw message whose action has an unknown kind tag is rejected: the
\* log is unchanged, nothing is written or broadcast, and its sender alone
\* is sent an error message.
C9_UnknownKindRejected ==
    [][\A ws \in Ids, a \in ClientActions :
          WebSocketMessageDraw(ws, a) /\ a.type \notin validDrawTypes
          => /\ drawings' = drawings
             /\ stored' = stored
             /\ awaiting' = awaiting
             /\ sent' = <<ErrorMsg(ws)>>]_vars

PutOps == {"draw", "undo", "clear"}

\* C11. Broadcast liveness under slow persistence: the broadcast of an accepted
\* mutation does not wait for its write: while the write is still pending, the
\* step that dispatches the broadcast can be taken (so it is dispatched even
\* if the write never completes).
C11_BroadcastNotBlockedByWrite ==
    \A k \in awaiting :
        k.op \in PutOps /\ k.io = "pending" => ENABLED Resume(k)

\* C12. Persistence failure tolerance: when the write of a draw, undo or clear
\* fails, the log stays exactly as the mutation left it and the snapshot as it
\* was; when the handler is over no write is pending and the room takes its
\* next message; and every write that lands stores the complete current log.
C12_PersistenceFailureTolerance ==
    [][/\ \A k \in awaiting :
             k.op \in PutOps /\ (StorageFails(k) \/ ResumeThrows(k))
             => /\ drawings' = drawings
                /\ drawings = k.value.value
                /\ stored' = stored
                /\ ResumeThrows(k) => awaiting' = {}
       /\ \A k \in awaiting :
             k.op \in PutOps /\ StorageCompletes(k) => stored' = Value(drawings')]_vars

C12_Witness ==
    /\ faults = 1
    /\ Len(drawings) = 2
    /\ stored = Value(drawings)
    /\ \E k \in awaiting : k.op = "draw" /\ k.io = "ok"

\* How many of the step's sends go to session s and carry message m.
TimesSent(s, m) ==
    Cardinality({i \in 1..Len(sent') : sent'[i].to = s /\ sent'[i] = m})

\* How many of the step's sends of the given type go to session s.
TimesSentType(s, type) ==
    Cardinality({i \in 1..Len(sent') : sent'[i].to = s /\ sent'[i].type = type})

\* The step sends message m[s] once to every accepted socket s but sender, and
\* no other message of that type to anyone.
SentOnceToOthers(m, type, sender) ==
    \A s \in sockets :
        /\ TimesSentType(s, type) = IF s = sender THEN 0 ELSE 1
        /\ s # sender => TimesSent(s, m[s]) = 1

\* The step sends message m[s] once to every accepted socket s, and no other
\* message of that type to anyone.
SentOnceToAll(m, type) ==
    \A s \in sockets : TimesSentType(s, type) = 1 /\ TimesSent(s, m[s]) = 1

\* The handler that was suspended as k is over with this step.
Ends(k) == k \in awaiting /\ k.io # "pending" /\ k \notin awaiting'

\* C13. No echo: no draw or cursor-move message is sent to the session it
\* originates from; and when the handler of an accepted draw or of a valid
\* cursor-move is over, every other accepted session has been sent the
\* resulting message exactly once.
C13_NoEcho ==
    [][/\ \A i \in 1..Len(sent') :
             sent'[i].type \in {"draw", "cursor-move"}
             => sent'[i].to # sent'[i].action.userId
       /\ ev'.op = "draw" /\ ev'.at = "done" /\ Len(drawings') = Len(drawings) + 1
          => SentOnceToOthers([s \in Ids |-> DrawMsg(s, drawings'[Len(drawings')])],
                              "draw", ev'.ws)
       /\ \A k \in awaiting :
             k.op = "draw" /\ Ends(k)
             => SentOnceToOthers([s \in Ids |-> DrawMsg(s, k.action)], "draw", k.ws)
       /\ ev'.op = "cursor-move" /\ WebSocketMessageCursor(ev'.ws, TRUE)
          => SentOnceToOthers([s \in Ids |-> CursorMsg(s, ev'.ws)],
                              "cursor-move", ev'.ws)]_vars

\* C14. Reconciliation broadcasts: when the handler of an undo that removed
\* entries is over, every accepted session, the requester included, has been
\* sent one reload-state whose drawings are the log after the undo; when the
\* handler of a clear is over, every accepted session has been sent one clear.
C14_ReconciliationBroadcasts ==
    [][\A k \in awaiting :
          /\ k.op = "undo" /\ Ends(k)
             => SentOnceToAll([s \in Ids |-> Msg(s, "reload-state", NoAction, drawings', 0)],
                              "reload-state")
          /\ k.op = "clear" /\ Ends(k)
             => SentOnceToAll([s \in Ids |-> ClearMsg(s)], "clear")]_vars

\* The accepted session a broadcast message of the step is not meant for: the
\* originator of a draw or cursor-move, the joiner for the user-count of a join.
NotMeantFor(m) ==
    IF m.type \in {"draw", "cursor-move"} THEN {m.action.userId}
    ELSE IF m.type = "user-count" /\ ev'.op = "join" THEN {ev'.ws}
    ELSE {}

\* C15. Send-failure containment: in a step where a send to a recipient fails,
\* every recipient the message is meant for is still sent it, once (the failed
\* one included: no retry), and the sends to the others succeed; the failed
\* session stays in the session set, the snapshot is untouched and the log
\* loses nothing.
C15_SendFailureContained ==
    [][(\E i \in 1..Len(sent') : ~sent'[i].ok)
       => /\ \A i \in 1..Len(sent') :
                sent'[i].type \in {"draw", "cursor-move", "user-count", "reload-state", "clear"}
                => \A s \in sockets' \ NotMeantFor(sent'[i]) :
                      /\ TimesSentType(s, sent'[i].type) = 1
                      /\ \A j \in 1..Len(sent') :
                            sent'[j].to = s /\ s \notin broken => sent'[j].ok
          /\ \A i \in 1..Len(sent') : ~sent'[i].ok => sent'[i].to \in sockets'
          /\ stored' = stored
          /\ IsPrefix(drawings, drawings')
          /\ sockets' = sockets \/ ev'.op \in {"join", "close"}]_vars

C15_Witness ==
    /\ ev.op = "undo" /\ ev.at = "done"
    /\ Len(sent) = 2
    /\ sent[1].type = "reload-state" /\ ~sent[1].ok /\ sent[1].to \in sockets
    /\ sent[2].type = "reload-state" /\ sent[2].ok

C17_LoadStateOncePerJoin ==
    [][/\ Fetch => TimesSentType(ev'.ws, "load-state") = 1
       /\ \A i \in 1..Len(sent') :
             sent'[i].type = "load-state"
             => /\ ev'.op = "join"
                /\ sent'[i].to = ev'.ws
                /\ ev'.ws \in sockets' \ sockets
                /\ \A j \in 1..Len(sent') : sent'[j].type = "load-state" => j = i
                /\ drawings' = drawings
                /\ sent'[i].drawings = drawings
                /\ sent'[i].count = Cardinality(sockets')]_vars

C17_Witness ==
    /\ ev.op = "join"
    /\ Cardinality(sockets) = 2
    /\ Len(drawings) = 3
    /\ drawings[3].type = "end"
    /\ sent[1] = LoadState(ev.ws, drawings, 2)

\* How many of the step's sends to session s carry a member count.
CountsSent(s) ==
    TimesSentType(s, "load-state") + TimesSentType(s, "user-count")

\* C18. Member-count accuracy: the session set changes, and counts are sent,
\* only at a join or a leave, and then every live session is sent exactly one
\* count, the number of sessions now connected; the session that left is
\* sent nothing and is not counted.
C18_MemberCountAccurate ==
    [][(sockets' # sockets) \/ (\E i \in 1..Len(sent') : sent'[i].type \in {"load-state", "user-count"})
       => /\ ev'.op \in {"join", "close"}
          /\ sockets' # sockets
          /\ \A s \in sockets' : CountsSent(s) = 1
          /\ \A i \in 1..Len(sent') :
                sent'[i].type \in {"load-state", "user-count"}
                => sent'[i].to \in sockets' /\ sent'[i].count = Cardinality(sockets')]_vars

C18_Witness ==
    /\ ev.op = "close" /\ ev.at = "done"
    /\ Cardinality(sockets) = 1
    /\ Len(sent) = 1
    /\ sent[1].type = "user-count" /\ sent[1].count = 1
    /\ sent[1].to \in sockets /\ sent[1].to # ev.ws

\* Every 'end' of log has an earlier 'start' of its owner, with only 'draw'
\* entries of that owner, or entries of other owners, between the two.
WellFormed(log) ==
    \A i \in 1..Len(log) :
        log[i].type = "end"
        => \E j \in 1..(i - 1) :
              /\ log[j].userId = log[i].userId
              /\ log[j].type = "start"
              /\ \A k \in (j + 1)..(i - 1) :
                    log[k].userId = log[i].userId => log[k].type = "draw"

\* C19. Log well-formedness: in every reachable state every 'end' entry of the
\* log has an earlier nearest 'start' of the same owner, and between the two
\* there are only 'draw' entries of that owner or entries of other owners.
C19_LogWellFormed == WellFormed(drawings)

\* The position the backward scan of an undo of u reaches first once it skips
\* the entries of other owners and the 'start' and 'draw' entries of u (0
\* when there is none).
RECURSIVE FirstReached(_, _, _)
FirstReached(log, u, i) ==
    IF i = 0 THEN 0
    ELSE IF log[i].userId = u /\ log[i].type \notin {"start", "draw"} THEN i
    ELSE FirstReached(log, u, i - 1)

\* C20. Atomic undo target: when the first entry the backward scan reaches is
\* a shape, text or image of the requester, the undo removes exactly that
\* entry; every other entry stays, in its order.
C20_AtomicUndoRemovesOneEntry ==
    [][\A ws \in Ids :
          LET i == FirstReached(drawings, ws, Len(drawings))
          IN WebSocketMessageUndo(ws) /\ i # 0 /\ drawings[i].type \in {"shape", "text", "image"}
             => drawings' = Without(drawings, {i})]_vars

C20_Witness ==
    /\ ev.op = "undo" /\ ev.at = "await" /\ ev.n = 1
    /\ Len(drawings) = 2
    /\ drawings[1].type = "start" /\ drawings[1].userId = ev.ws
    /\ drawings[2].type = "end" /\ drawings[2].userId = ev.ws

C13_Witness ==
    /\ ev.op = "draw" /\ ev.at = "done"
    /\ Cardinality(sockets) = 2
    /\ Len(drawings) >= 1
    /\ drawings[Len(drawings)].type = "shape"
    /\ Len(sent) = 1
    /\ sent[1].to # ev.ws
    /\ sent[1] = DrawMsg(sent[1].to, drawings[Len(drawings)])

C14_Witness ==
    /\ ev.op = "undo" /\ ev.at = "done" /\ ev.n >= 1
    /\ Cardinality(sockets) = 2
    /\ Len(drawings) >= 1
    /\ Len(sent) = 2
    /\ \E i \in 1..2 : sent[i] = ReloadState(ev.ws, drawings)
    /\ \E i \in 1..2 : sent[i].to # ev.ws /\ sent[i] = ReloadState(sent[i].to, drawings)

\* The position of the last 'end' of u in log (0 when there is none).
LastEnd(log, u) ==
    LET S == {i \in 1..Len(log) : log[i].userId = u /\ log[i].type = "end"}
    IN IF S = {} THEN 0 ELSE CHOOSE i \in S : \A k \in S : k <= i

\* The in-progress stroke of u: its 'start' and 'draw' entries that have no
\* later 'end' of u, in log order.
RECURSIVE InProgressFrom(_, _, _)
InProgressFrom(log, u, i) ==
    IF i > Len(log) THEN <<>>
    ELSE IF log[i].userId = u /\ log[i].type \in {"start", "draw"}
         THEN <<log[i]>> \o InProgressFrom(log, u, i + 1)
         ELSE InProgressFrom(log, u, i + 1)

InProgress(log, u) == InProgressFrom(log, u, LastEnd(log, u) + 1)

\* C21. In-progress stroke protection: an undo removes no 'start' or 'draw'
\* entry that has no later 'end' of its owner, the requester's or another
\* session's: the in-progress entries of every session are still in the log,
\* in their order, after the undo.
C21_InProgressKeptByUndo ==
    [][ev'.op = "undo" /\ drawings' # drawings
       => \A u \in Ids : IsSubseq(InProgress(drawings, u), InProgress(drawings', u))]_vars

\* C22. Undo no-op: when the log holds no entry of the requester, an undo
\* changes neither the log nor the snapshot nor the session set, writes
\* nothing and sends nothing.
C22_UndoNoOp ==
    [][\A ws \in Ids :
          WebSocketMessageUndo(ws) /\ OwnedBy(drawings, ws) = <<>>
          => /\ drawings' = drawings
             /\ stored' = stored
             /\ sockets' = sockets
             /\ awaiting' = awaiting
             /\ sent' = <<>>]_vars

C22_Witness ==
    /\ ev.op = "undo" /\ ev.at = "done" /\ ev.n = 0
    /\ Len(drawings) = 2
    /\ drawings[2].type = "shape"
    /\ OwnedBy(drawings, ev.ws) = <<>>
    /\ stored = Value(drawings)

\* C23. Every undo message and every clear message, once processed, leaves
\* the snapshot equal to the log.
C23_UndoClearPersisted ==
    ev.op \in {"undo", "clear"} /\ ev.at = "done" => stored = Value(drawings)

\* C23, amended: every undo that removes entries and every clear issues the
\* write of the new log at once, and once it is processed the snapshot
\* equals the log. (An undo that removes nothing writes nothing.)
C23_RemovingUndoAndClearPersisted ==
    /\ ev.op \in {"undo", "clear"} /\ ev.at = "await"
       => \E k \in awaiting : k.op = ev.op /\ k.value = Value(drawings)
    /\ (ev.op = "clear" \/ (ev.op = "undo" /\ ev.n > 0)) /\ ev.at = "done"
       => stored = Value(drawings)

C23_Witness ==
    /\ ev.op = "undo" /\ ev.at = "done" /\ ev.n = 1
    /\ Len(drawings) = 1
    /\ drawings[1].type = "start"
    /\ stored = Value(drawings)

\* C24. Clear is unconditional: a clear from any accepted session empties the
\* whole log, whoever owns the entries, in-progress strokes included.
C24_ClearEmptiesLog ==
    [][\A ws \in Ids : WebSocketMessageClear(ws) => drawings' = <<>>]_vars

C24_Witness ==
    /\ ev.op = "clear" /\ ev.at = "await" /\ ev.n = 2
    /\ drawings = <<>>
    /\ stored.has /\ Len(stored.value) = 2
    /\ stored.value[1].type = "start" /\ stored.value[1].userId # ev.ws

\* C25. Room state machine: whenever the room has no accepted socket and no
\* handler is running, the log is empty and there is no snapshot; so the log
\* is non-empty only while a session is connected.
C25_EmptyRoomHoldsNothing ==
    awaiting = {} /\ sockets = {} => drawings = <<>> /\ ~stored.has

C25_Witness ==
    /\ ev.op = "close" /\ ev.at = "done" /\ ev.n = 3
    /\ awaiting = {} /\ sockets = {}
    /\ drawings = <<>> /\ stored = NoValue

\* C27. cursor-move has no durable effect: valid or not, it changes neither
\* the log nor the snapshot and issues no write; a valid one is sent once to
\* every other session, tagged with the sender's session id, and one without
\* numeric x and y is sent to nobody.
C27_CursorMoveNotDurable ==
    [][\A ws \in Ids, numeric \in BOOLEAN :
          WebSocketMessageCursor(ws, numeric)
          => /\ UNCHANGED <<drawings, stored, awaiting, sockets>>
             /\ IF numeric
                THEN /\ SentOnceToOthers([s \in Ids |-> CursorMsg(s, ws)], "cursor-move", ws)
                     /\ Len(sent') = Cardinality(sockets \ {ws})
                ELSE sent' = <<>>]_vars

C27_Witness ==
    /\ ev.op = "cursor-move"
    /\ Len(sent) = 1
    /\ sent[1].type = "cursor-move" /\ sent[1].action.userId = ev.ws /\ sent[1].to # ev.ws
    /\ Len(drawings) >= 1
    /\ stored.value # drawings
    /\ awaiting = {}

\* C28. Unrecognized input is inert: a message that does not parse, or of an
\* unknown type, leaves the log, the snapshot and the session set unchanged,
\* sends nothing, and its sender stays accepted with the room ready for its
\* next message.
C28_UnrecognizedInert ==
    [][\A ws \in Ids :
          WebSocketMessageOther(ws)
          => /\ UNCHANGED <<drawings, stored, sockets, awaiting>>
             /\ sent' = <<>>
             /\ ws \in sockets'
             /\ awaiting' = {}]_vars

C28_Witness ==
    /\ ev.op = "other" /\ ev.at = "done"
    /\ Cardinality(sockets) = 2
    /\ Len(drawings) >= 1
    /\ sent = <<>>
    /\ awaiting = {}

\* The retry budget is used up: the socket of the last attempt has closed.
Exhausted == attemptsMade = maxReconnectAttempts /\ readyState = "closed"

\* C29: Bounded retry budget. Without an intervening open the client makes at
\* most 5 reconnection attempts; once the 5th has failed its last reported
\* status is 'disconnected', no timeout is pending, and no step makes another
\* attempt.
C29_BoundedRetryBudget ==
    /\ [](attemptsMade <= 5)
    /\ [](Exhausted => status = "disconnected" /\ timers = {})
    /\ [][Exhausted => readyState' = "closed" /\ attemptsMade' = attemptsMade]_vars

C29_Witness == Exhausted /\ reconnectAttempts = 5 /\ status = "disconnected"

\* C30: Linear backoff with reset. The timeout set before the k-th attempt
\* since the last open is 1000 ms * k and is due that long after the close;
\* an open sets the counter to zero, so the retry after it is the first again.
C30_LinearBackoffWithReset ==
    /\ [][\A t \in timers' \ timers :
              /\ t.delay = 1000 * (attemptsMade + 1)
              /\ t.due = now + t.delay]_vars
    /\ [][\A t \in timers : readyState' = "connecting" /\ readyState = "closed"
                              => now >= t.due]_vars
    /\ [](readyState = "open" => reconnectAttempts = 0 /\ attemptsMade = 0)

C30_Witness == attemptsMade = 2 /\ \E t \in timers : t.delay = 3000 /\ t.due = now + 3000

\* The sockets of the client that are connecting or open.
LiveSockets == orphans + (IF readyState \in {"connecting", "open"} THEN 1 ELSE 0)

\* C33: Single connection / timer discipline. At every moment the client has
\* at most one of: a socket that is connecting or open, a pending retry
\* timeout. No timeout is pending while the client is connected, and there are
\* never two sockets connecting or open at once.
C33_SingleConnectionTimerDiscipline ==
    /\ LiveSockets + Cardinality(timers) <= 1
    /\ readyState = "open" => timers = {}
    /\ orphans = 0

C33_Witness ==
    /\ readyState = "closed" /\ Cardinality(timers) = 1
    /\ attemptsMade = 1 /\ reconnectAttempts = 2

\* Action a was delivered to the page before action b: as an earlier entry of
\* the same log, or by an earlier draw message.
DeliveredBefore(a, b) ==
    \/ a.from = b.from /\ a.pos < b.pos
    \/ /\ a.from < b.from
       /\ received[a.from].type = "draw" /\ received[b.from].type = "draw"

\* C32: In-order rendering with asynchronous decode. No action is in the
\* page's action list while an action delivered before it (in the same log, or
\* by an earlier draw message) still waits for its image to be decoded.
C32_InOrderRendering ==
    \A t \in decoding : \A k \in 1..Len(drawingActions) :
        ~DeliveredBefore(t.entry, drawingActions[k])

\* The kinds of the entries of the page's action list, in order.
Kinds(list) == [k \in 1..Len(list) |-> list[k].type]

\* C38: Overlapping replays converge. When a load-state or reload-state has
\* arrived while an earlier replay was suspended on a decode, and every replay
\* has finished, the page's action list is the log of the last message.
C38_OverlappingReplaysConverge ==
    overlap /\ decoding = {}
        => Kinds(drawingActions) = received[Len(received)].drawings

\* No handler of the room is suspended; sends are delivered within the step
\* and replays are whole, so nothing is in flight between steps.
Quiescent == awaiting = {}

\* C26: View consistency. Whenever nothing is in flight and no handler runs,
\* the action list of every connected page holds exactly the actions of the
\* room's log; an action the room rejected or dropped is not in its sender's
\* list.
C26_ViewConsistency ==
    Quiescent => \A s \in sockets : view[s] = ShownLog(drawings)

C35_LogBroadcastAgreement ==
    [][/\ ev'.op = "draw" /\ ev'.at = "done" /\ Len(drawings') = Len(drawings) + 1
          => SentOnceToOthers([s \in Ids |-> DrawMsg(s, drawings'[Len(drawings')])],
                              "draw", ev'.ws)
       /\ \A k \in awaiting :
             Ends(k)
             => CASE k.op = "draw" ->
                       SentOnceToOthers([s \in Ids |-> DrawMsg(s, k.action)], "draw", k.ws)
                  [] k.op = "undo" ->
                       SentOnceToAll([s \in Ids |-> Msg(s, "reload-state", NoAction, drawings', 0)],
                                     "reload-state")
                  [] k.op = "clear" ->
                       SentOnceToAll([s \in Ids |-> ClearMsg(s)], "clear")
                  [] OTHER -> TRUE]_vars

\* C37: Teardown under storage failure. When deleteAll fails while the leave of
\* the last session is processed, the in-memory log is discarded all the same,
\* and the next session to join is sent no old drawings.
C37_TeardownUnderStorageFailure ==
    [][/\ ev'.op = "close" /\ ev'.at = "threw" => drawings' = <<>>
       /\ ev.op = "close" /\ ev.at = "threw" /\ ev'.op = "join"
          => sent'[1].type = "load-state" /\ sent'[1].drawings = <<>>]_vars

\* C31: Rejoin resynchronization. On every connect, first or repeated, the
\* client is sent a load-state and, whatever the length of the log in it, its
\* action list afterwards is the received log.
C31_RejoinResync ==
    [][ev'.op = "join" /\ ev'.ws \in sockets' \ sockets
       => /\ sent'[1].type = "load-state" /\ sent'[1].to = ev'.ws
          /\ view'[ev'.ws] = ShownLog(sent'[1].drawings)]_vars

\* C36: Session-scoped ownership across reconnects. Every connection gets a
\* session id that no socket, no log entry and no earlier session of the same
\* page has; an undo of the new session removes no entry the page appended under
\* an earlier session id.
C36_SessionScopedOwnership ==
    [][/\ sockets' \ sockets # {}
          => ev'.ws \in sockets' /\ ev'.ws \notin sockets \cup Owners(drawings) \cup former'[ev'.ws]
       /\ ev'.op = "undo"
          => \A u \in former[ev'.ws] : OwnedBy(drawings', u) = OwnedBy(drawings, u)]_vars

C36_Witness ==
    /\ ev.op = "undo" /\ ev.n > 0
    /\ \E u \in former[ev.ws] : OwnedBy(drawings, u) # <<>>

\* The entries of list that were emitted by a page without an open socket.
EmittedOffline(list) == {k \in 1..Len(list) : list[k].payload = OfflinePayload}

\* C39: No offline queue. An action emitted while the socket is not open is
\* dropped, not kept for later: the step changes nothing in the room and in no
\* other page, nothing is held to be sent after reconnecting, and the action
\* never is in the log, in the storage or in the list of another page.
C39_NoOfflineQueue ==
    /\ [][offline.on /\ offline'.on /\ offline'.list # offline.list
             => UNCHANGED <<roomVars, view>>]_vars
    /\ [](offline.unsent = <<>>)
    /\ [](/\ EmittedOffline(drawings) = {}
          /\ EmittedOffline(stored.value) = {}
          /\ \A s \in sockets : former[s] = {} => EmittedOffline(view[s]) = {})

C39_Witness ==
    \E s \in sockets :
        /\ former[s] # {}
        /\ EmittedOffline(view[s]) # {}
        /\ \E t \in sockets \ {s} : former[t] = {}

====
